---- MODULE Spec2Model ----
(***************************************************************************)
(* Math-bot: the per-user session state machine of MathTaskService         *)
(* (app/services/math_task_service.py) over UserSession                    *)
(* (app/domain/models.py) and UserSessionRepository                        *)
(* (app/infrastructure/session_repository.py).                             *)
(*                                                                         *)
(* Spec        : the service calls run one after another (each call is one *)
(*               step).                                                    *)
(* SpecThreads : the calls run on the TeleBot worker threads; a call that  *)
(*               asks the LLM yields while the request is in flight.       *)
(*                                                                         *)
(* Python strings that are compared are sequences of one-character         *)
(* strings. Python list indices are 0-based, the sequences here 1-based:   *)
(* current_task_ids[current_index] is current_task_ids[current_index + 1]. *)
(***************************************************************************)
EXTENDS Integers, Sequences, FiniteSets, TLC

VARIABLES
    euler_tasks,   \* JsonEulerTaskRepository._tasks_by_id: the ids loaded
    sessions,      \* the UserSession object of every user id
    created,       \* the keys of UserSessionRepository._sessions
    calls,         \* what each worker thread is doing
    ret,           \* the service call that returned last, and what it returned
    short_answer_calls,  \* per user: LLMClient.get_short_answer calls since the round began
    bot            \* the TelegramMathBot handler that ran last, and what it sent

vars == <<euler_tasks, sessions, created, calls, ret, short_answer_calls, bot>>

-----------------------------------------------------------------------------
(* Bounds of the model *)

\* Project Euler tasks the catalogue file may hold (ids 1..NumEulerTasks).
NumEulerTasks == 2

\* get_short_answer calls followed within one round.
MaxShortAnswerCalls == 2

\* Largest num_tasks a round is started with.
MaxNumTasks == 2

-----------------------------------------------------------------------------
(* Values *)

\* Python's None, for the optional mode and level.
None == "None"

\* Python's None, for an optional task id (task ids are positive).
NoTask == 0

\* The user ids the store may hold a session for.
AllUsers == {"u1", "u2"}

\* The user whose calls the specifications follow.
Users == {"u1"}

\* The worker threads of telebot.TeleBot (threaded, two workers by default).
Threads == {"w1", "w2"}

\* config.LEVELS, kept to three tiers.
LEVELS == <<"g5", "g6", "g7">>

LevelSet == {LEVELS[i] : i \in 1..Len(LEVELS)}

\* Characters of the answers: a digit or two, a letter in both cases, the
\* space and another whitespace character (tab).
SP == " "
TAB == "\t"

\* The file behind JsonLevelTaskRepository: two tasks in tier g5 (the second
\* without an "answer"), one in tier g6, none in tier g7.
LevelCatalogue ==
    << [id |-> 1, level |-> "g5", has_answer |-> TRUE,  answer |-> <<"4", "2">>],
       [id |-> 2, level |-> "g5", has_answer |-> FALSE, answer |-> <<>>],
       [id |-> 3, level |-> "g6", has_answer |-> TRUE,  answer |-> <<"X">>] >>

\* The texts a user may send as an answer.
UserAnswers ==
    { <<>>,
      <<TAB, SP>>,
      <<"4", "2">>,
      <<SP, "4", SP, "2", TAB>>,
      <<"4", "3">>,
      <<"x">> }

\* The short answers LLMClient.get_short_answer may return.
ShortAnswers == { <<"4", "2">>, <<"X">> }

-----------------------------------------------------------------------------
(* str.strip().lower().replace(" ", "") *)

IsSpace(c) == c \in {SP, TAB}

RECURSIVE lstrip(_)
lstrip(s) ==
    IF s = <<>> THEN <<>>
    ELSE IF IsSpace(Head(s)) THEN lstrip(Tail(s)) ELSE s

RECURSIVE rstrip(_)
rstrip(s) ==
    IF s = <<>> THEN <<>>
    ELSE IF IsSpace(s[Len(s)]) THEN rstrip(SubSeq(s, 1, Len(s) - 1)) ELSE s

strip(s) == rstrip(lstrip(s))

\* The cased letters among the characters of the texts below.
IsCased(c) == c \in {"X", "x", "Σ", "σ", "ς"}

lower_char(c) == IF c = "X" THEN "x" ELSE IF c = "Σ" THEN "σ" ELSE c

\* str.lower writes a capital sigma that ends a word as the final sigma: one
\* that follows a cased letter and is not followed by one.
FinalSigma(s, i) ==
    /\ s[i] = "Σ"
    /\ i > 1 /\ IsCased(s[i - 1])
    /\ ~(i < Len(s) /\ IsCased(s[i + 1]))

lower(s) == [i \in 1..Len(s) |-> IF FinalSigma(s, i) THEN "ς" ELSE lower_char(s[i])]

IsNotSP(c) == c # SP

replace_space(s) == SelectSeq(s, IsNotSP)

normalize_answer(value) == replace_space(lower(strip(value)))

\* is_correct = _normalize_answer(user_answer) == _normalize_answer(correct_answer)
answers_match(user_answer, correct_answer) ==
    normalize_answer(user_answer) = normalize_answer(correct_answer)

\* The characters of the texts the comparison is tried on.
AnswerChars == {SP, TAB, "X", "x", "Σ", "ς", "4"}

\* The texts a user may send: every text of at most two of these characters.
AnswerTexts ==
    {<<>>} \cup {<<c>> : c \in AnswerChars} \cup {<<c, d>> : c, d \in AnswerChars}

\* The reference answers they are compared with.
ReferenceAnswers == { <<>>, <<"4">>, <<"x">>, <<"ς">>, <<"x", "Σ">>, <<"x", "4">> }

-----------------------------------------------------------------------------
(* The task repositories *)

LevelTaskIds == {LevelCatalogue[i].id : i \in 1..Len(LevelCatalogue)}

LevelTask(id) ==
    LevelCatalogue[CHOOSE i \in 1..Len(LevelCatalogue) : LevelCatalogue[i].id = id]

\* JsonLevelTaskRepository._tasks_by_level.get(level, []), as ids
tasks_by_level(level) ==
    LET keep(t) == t.level = level
        ts == SelectSeq(LevelCatalogue, keep)
    IN  [i \in 1..Len(ts) |-> ts[i].id]

\* Mutant of answer_or_empty: a missing answer is rendered as text.
answer_or_empty_rendered(id) ==
    IF LevelTask(id).has_answer THEN LevelTask(id).answer ELSE <<"N", "o", "n", "e">>

\* task.answer or ""
answer_or_empty(id) ==
    IF LevelTask(id).has_answer THEN LevelTask(id).answer ELSE <<>>

\* Mutant of random_sample: the draw is made with replacement.
random_sample_with_replacement(pool, k) == [1..k -> pool]

\* random.sample(pool, k): the sequences it can return
random_sample(pool, k) ==
    {q \in [1..k -> pool] : \A i, j \in 1..k : i # j => q[i] # q[j]}

Range(q) == {q[i] : i \in 1..Len(q)}

\* JsonEulerTaskRepository.get_random_tasks(n), as id lists
get_random_tasks(n) ==
    IF euler_tasks = {} THEN {<<>>}
    ELSE IF n >= Cardinality(euler_tasks)
         THEN random_sample(euler_tasks, Cardinality(euler_tasks))
         ELSE random_sample(euler_tasks, n)

\* JsonLevelTaskRepository.get_random_tasks_for_level(level, n), as id lists
get_random_tasks_for_level(level, n) ==
    LET tasks == Range(tasks_by_level(level))
    IN  IF tasks = {} THEN {<<>>}
        ELSE IF n >= Cardinality(tasks)
             THEN random_sample(tasks, Cardinality(tasks))
             ELSE random_sample(tasks, n)

\* <repo>.get_task_by_id(task_id) of the repository the mode selects
get_task_by_id(mode, task_id) ==
    IF mode = "euler" THEN (IF task_id \in euler_tasks THEN task_id ELSE NoTask)
    ELSE IF mode = "level" THEN (IF task_id \in LevelTaskIds THEN task_id ELSE NoTask)
    ELSE NoTask

-----------------------------------------------------------------------------
(* UserSession *)

NewSession ==
    [ mode               |-> None,
      level              |-> None,
      current_task_ids   |-> <<>>,
      current_index      |-> 0,
      waiting_for_answer |-> FALSE,
      expected_task_id   |-> NoTask,
      results            |-> <<>> ]

\* UserSession.reset
\* Mutant of reset: the recorded outcomes survive.
reset_keeps_results(s) ==
    [s EXCEPT !.mode = None,
              !.level = None,
              !.current_task_ids = <<>>,
              !.current_index = 0,
              !.waiting_for_answer = FALSE,
              !.expected_task_id = NoTask]

reset(s) ==
    [s EXCEPT !.mode = None,
              !.level = None,
              !.current_task_ids = <<>>,
              !.current_index = 0,
              !.waiting_for_answer = FALSE,
              !.expected_task_id = NoTask,
              !.results = <<>>]

has_active_tasks(s) ==
    0 <= s.current_index /\ s.current_index < Len(s.current_task_ids)

\* Mutant of get_current_task_id: past the end of the queue the last task
\* stays current.
get_current_task_id_last(s) ==
    IF s.current_task_ids = <<>> THEN NoTask
    ELSE IF s.current_index < Len(s.current_task_ids)
         THEN s.current_task_ids[s.current_index + 1]
         ELSE s.current_task_ids[Len(s.current_task_ids)]

get_current_task_id(s) ==
    IF has_active_tasks(s) THEN s.current_task_ids[s.current_index + 1] ELSE NoTask

UserTaskResult(task_id, user_answer, correct_answer, is_correct, gave_up) ==
    [ task_id        |-> task_id,
      user_answer    |-> user_answer,
      correct_answer |-> correct_answer,
      is_correct     |-> is_correct,
      gave_up        |-> gave_up ]

-----------------------------------------------------------------------------
(* What a service call returns *)

\* The shape of every return record; AnswerResult gives the fields.
NoRet ==
    [ op             |-> "init",
      user           |-> "-",
      kind           |-> "void",      \* void, none, task, answer, text, raise, summary
      llm            |-> "no_call",   \* the LLMClient method the call used
      mode           |-> None,
      is_correct     |-> FALSE,
      user_answer    |-> <<>>,
      correct_answer |-> <<>>,
      task           |-> NoTask,
      next_task      |-> NoTask,
      finished_round |-> FALSE,
      gave_up        |-> FALSE,
      level          |-> None,        \* LevelRoundSummary
      total          |-> 0,
      correct_count  |-> 0,
      results        |-> <<>>,
      line           |-> 0 ]          \* of the return statement, where recorded

\* return None
RetNone == [NoRet EXCEPT !.kind = "none"]

\* return None, at the given line of math_task_service.py
RetNoneAt(line) == [RetNone EXCEPT !.line = line]

\* return task (an Optional[Task])
RetTask(task) ==
    IF task = NoTask THEN RetNone
    ELSE [NoRet EXCEPT !.kind = "task", !.task = task]

\* the LLM call raised, and the service call with it
RetRaise(method) == [NoRet EXCEPT !.kind = "raise", !.llm = method]

\* return text (the hint or the solution)
RetText(method) == [NoRet EXCEPT !.kind = "text", !.llm = method]

AnswerResult(mode, is_correct, user_answer, correct_answer, task, next_task, finished_round, gave_up, method) ==
    [NoRet EXCEPT !.kind = "answer",
                  !.llm = method,
                  !.mode = mode,
                  !.is_correct = is_correct,
                  !.user_answer = user_answer,
                  !.correct_answer = correct_answer,
                  !.task = task,
                  !.next_task = next_task,
                  !.finished_round = finished_round,
                  !.gave_up = gave_up]

\* What an LLM call can do: raise, or return a text.
LLMFailure == [ok |-> FALSE, text |-> <<>>]

ShortAnswerOutcomes == {LLMFailure} \cup {[ok |-> TRUE, text |-> c] : c \in ShortAnswers}

\* The text of a hint or a solution is shown and never inspected.
TextOutcomes == {LLMFailure, [ok |-> TRUE, text |-> <<>>]}

-----------------------------------------------------------------------------
(* MathTaskService, as functions of the session object *)

\* MathTaskService.get_current_task
get_current_task(s) ==
    LET task_id == get_current_task_id(s)
    IN  IF task_id = NoTask THEN NoTask
        ELSE get_task_by_id(s.mode, task_id)

\* Mutant of goto_next_task: after the last task the cursor wraps to the first.
goto_next_task_wrap(s) ==
    [s EXCEPT !.current_index =
        IF @ + 1 >= Len(s.current_task_ids) THEN 0 ELSE @ + 1]

\* MathTaskService._goto_next_task: the session it leaves
goto_next_task(s) == [s EXCEPT !.current_index = @ + 1]

\* Mutant of next_task_of: the task the cursor has just left is returned.
next_task_of_previous(s) ==
    IF s.current_index >= Len(s.current_task_ids) \/ s.current_index = 0 THEN NoTask
    ELSE get_task_by_id(s.mode, s.current_task_ids[s.current_index])

\* MathTaskService._goto_next_task: what it returns, from the session it left
next_task_of(s) ==
    IF s.current_index >= Len(s.current_task_ids) THEN NoTask
    ELSE get_task_by_id(s.mode, s.current_task_ids[s.current_index + 1])

\* MathTaskService.is_waiting_for_answer
is_waiting_for_answer(s) == s.waiting_for_answer /\ s.expected_task_id # NoTask

\* start_euler_session, up to the save
\* Mutant of euler_session: the session is not reset first.
euler_session_no_reset(s, ids) ==
    [s EXCEPT !.mode = "euler",
              !.current_task_ids = ids,
              !.current_index = 0,
              !.waiting_for_answer = FALSE,
              !.expected_task_id = NoTask]

euler_session(s, ids) ==
    [reset(s) EXCEPT !.mode = "euler",
                     !.current_task_ids = ids,
                     !.current_index = 0,
                     !.waiting_for_answer = FALSE,
                     !.expected_task_id = NoTask]

\* Mutant of level_round: the outcomes of the round before are kept.
level_round_keeps_results(s, level, ids) ==
    [s EXCEPT !.mode = "level",
              !.level = level,
              !.current_task_ids = ids,
              !.current_index = 0,
              !.waiting_for_answer = FALSE,
              !.expected_task_id = NoTask]

\* start_level_round, up to the save
level_round(s, level, ids) ==
    [reset(s) EXCEPT !.mode = "level",
                     !.level = level,
                     !.current_task_ids = ids,
                     !.current_index = 0,
                     !.results = <<>>,
                     !.waiting_for_answer = FALSE,
                     !.expected_task_id = NoTask]

\* return tasks[0] if tasks else None
first_or_none(ids) == IF ids = <<>> THEN RetNone ELSE RetTask(ids[1])

\* Mutant of request_answer: a second request for the task already awaited
\* withdraws the request.
request_answer_toggle(s) ==
    LET task == get_current_task(s)
    IN  IF task = NoTask THEN [s |-> s, r |-> RetNone]
        ELSE IF s.waiting_for_answer /\ s.expected_task_id = task
             THEN [s |-> [s EXCEPT !.waiting_for_answer = FALSE,
                                   !.expected_task_id = NoTask],
                   r |-> RetNone]
             ELSE [s |-> [s EXCEPT !.waiting_for_answer = TRUE,
                                   !.expected_task_id = task],
                   r |-> RetTask(task)]

\* request_answer_for_current_task
request_answer(s) ==
    LET task == get_current_task(s)
    IN  IF task = NoTask THEN [s |-> s, r |-> RetNone]
        ELSE [s |-> [s EXCEPT !.waiting_for_answer = TRUE,
                              !.expected_task_id = task],
              r |-> RetTask(task)]

\* Mutant of clear_waiting: the flags are left as they are.
clear_waiting_never(s) == s

\* submit_answer, lines 139-141: the flags are cleared before the evaluation
clear_waiting(s) ==
    [s EXCEPT !.waiting_for_answer = FALSE, !.expected_task_id = NoTask]

\* Mutant of submit_guard: waiting_for_answer is not looked at.
submit_guard_unchecked(s) ==
    IF get_current_task(s) = NoTask THEN "stale" ELSE "accepted"

\* Mutant of submit_guard: the expected task is not compared with the
\* current one.
submit_guard_no_stale(s) ==
    IF ~s.waiting_for_answer \/ s.expected_task_id = NoTask THEN "not_waiting"
    ELSE IF get_current_task(s) = NoTask THEN "stale"
    ELSE "accepted"

\* submit_answer, lines 127-137: "not_waiting", "stale" or "accepted"
submit_guard(s) ==
    IF ~s.waiting_for_answer \/ s.expected_task_id = NoTask THEN "not_waiting"
    ELSE IF get_current_task(s) = NoTask
            \/ get_current_task(s) # s.expected_task_id THEN "stale"
    ELSE "accepted"

\* Mutant of submit_answer_euler: a wrong answer keeps the task (as in level mode).
submit_answer_euler_retry(s, task, user_answer, correct_answer) ==
    LET is_correct == normalize_answer(user_answer) = normalize_answer(correct_answer)
        s2 == IF is_correct THEN goto_next_task(s) ELSE s
        next_task == IF is_correct THEN next_task_of(s2) ELSE task
    IN  [s |-> s2,
         r |-> AnswerResult("euler", is_correct, user_answer, correct_answer, task,
                            next_task, next_task = NoTask, FALSE, "get_short_answer")]

\* Mutant of submit_answer_euler: the outcome is recorded, as in level mode.
submit_answer_euler_recorded(s, task, user_answer, correct_answer) ==
    LET is_correct == normalize_answer(user_answer) = normalize_answer(correct_answer)
        s1 == [s EXCEPT !.results =
                   Append(@, UserTaskResult(task, user_answer, correct_answer, is_correct, FALSE))]
        s2 == goto_next_task(s1)
        next_task == next_task_of(s2)
    IN  [s |-> s2,
         r |-> AnswerResult("euler", is_correct, user_answer, correct_answer, task,
                            next_task, next_task = NoTask, FALSE, "get_short_answer")]

\* _submit_answer_euler, after get_short_answer returned correct_answer
submit_answer_euler(s, task, user_answer, correct_answer) ==
    LET is_correct == normalize_answer(user_answer) = normalize_answer(correct_answer)
        s2 == goto_next_task(s)
        next_task == next_task_of(s2)
    IN  [s |-> s2,
         r |-> AnswerResult("euler", is_correct, user_answer, correct_answer, task,
                            next_task, next_task = NoTask, FALSE, "get_short_answer")]

\* Mutant of submit_answer_level: a correct answer is recorded and the
\* cursor stays.
submit_answer_level_stay(s, task, user_answer) ==
    LET correct_answer == answer_or_empty(task)
        is_correct == normalize_answer(user_answer) = normalize_answer(correct_answer)
        s1 == [s EXCEPT !.results =
                   Append(@, UserTaskResult(task, user_answer, correct_answer, TRUE, FALSE))]
    IN  IF is_correct
        THEN [s |-> s1,
              r |-> AnswerResult("level", TRUE, user_answer, correct_answer, task,
                                 next_task_of(s1), next_task_of(s1) = NoTask, FALSE,
                                 "no_call")]
        ELSE [s |-> s,
              r |-> AnswerResult("level", FALSE, user_answer, correct_answer, task,
                                 task, FALSE, FALSE, "no_call")]

\* Mutant of submit_answer_level: a wrong answer moves on too (as in euler
\* mode).
submit_answer_level_one_shot(s, task, user_answer) ==
    LET correct_answer == answer_or_empty(task)
        is_correct == normalize_answer(user_answer) = normalize_answer(correct_answer)
        s1 == [s EXCEPT !.results =
                   Append(@, UserTaskResult(task, user_answer, correct_answer, TRUE, FALSE))]
        s2 == goto_next_task(IF is_correct THEN s1 ELSE s)
    IN  [s |-> s2,
         r |-> AnswerResult("level", is_correct, user_answer, correct_answer, task,
                            next_task_of(s2), next_task_of(s2) = NoTask, FALSE,
                            "no_call")]

\* Mutant of submit_answer_level: a wrong answer is recorded as an outcome
\* that is not correct; the cursor stays.
submit_answer_level_wrong_recorded(s, task, user_answer) ==
    LET correct_answer == answer_or_empty(task)
        is_correct == normalize_answer(user_answer) = normalize_answer(correct_answer)
        s1 == [s EXCEPT !.results =
                   Append(@, UserTaskResult(task, user_answer, correct_answer, is_correct, FALSE))]
        s2 == goto_next_task(s1)
    IN  IF is_correct
        THEN [s |-> s2,
              r |-> AnswerResult("level", TRUE, user_answer, correct_answer, task,
                                 next_task_of(s2), next_task_of(s2) = NoTask, FALSE,
                                 "no_call")]
        ELSE [s |-> s1,
              r |-> AnswerResult("level", FALSE, user_answer, correct_answer, task,
                                 task, FALSE, FALSE, "no_call")]

\* _submit_answer_level
submit_answer_level(s, task, user_answer) ==
    LET correct_answer == answer_or_empty(task)
        is_correct == normalize_answer(user_answer) = normalize_answer(correct_answer)
        s1 == [s EXCEPT !.results =
                   Append(@, UserTaskResult(task, user_answer, correct_answer, TRUE, FALSE))]
        s2 == goto_next_task(s1)
    IN  IF is_correct
        THEN [s |-> s2,
              r |-> AnswerResult("level", TRUE, user_answer, correct_answer, task,
                                 next_task_of(s2), next_task_of(s2) = NoTask, FALSE,
                                 "no_call")]
        ELSE [s |-> s,
              r |-> AnswerResult("level", FALSE, user_answer, correct_answer, task,
                                 task, FALSE, FALSE, "no_call")]

\* Mutant of submit_answer_local: the answer is evaluated against the task
\* it was requested for, current or not.
submit_answer_local_expected(s, user_answer) ==
    IF ~s.waiting_for_answer \/ s.expected_task_id = NoTask THEN [s |-> s, r |-> RetNoneAt(129)]
    ELSE IF s.mode = "level"
         THEN submit_answer_level(clear_waiting(s), s.expected_task_id, user_answer)
         ELSE [s |-> clear_waiting(s), r |-> RetNone]

\* submit_answer: the calls that end without asking the LLM
submit_answer_local(s, user_answer) ==
    LET guard == submit_guard(s)
        task == get_current_task(s)
    IN  IF guard = "not_waiting" THEN [s |-> s, r |-> RetNoneAt(129)]
        ELSE IF guard = "stale" THEN [s |-> clear_waiting(s), r |-> RetNoneAt(137)]
        ELSE IF s.mode = "level" THEN submit_answer_level(clear_waiting(s), task, user_answer)
        ELSE [s |-> clear_waiting(s), r |-> RetNone]

\* Mutant of submit_asks_llm: the answer is asked from the LLM in level mode too.
submit_asks_llm_any_mode(s) == submit_guard(s) = "accepted"

\* submit_answer reaches get_short_answer
submit_asks_llm(s) == submit_guard(s) = "accepted" /\ s.mode = "euler"

\* Mutant of give_up_asks_llm: the mode is not looked at.
give_up_asks_llm_any_mode(s) == get_current_task(s) # NoTask

\* give_up_and_get_solution_level reaches get_solution (lines 257-263)
give_up_asks_llm(s) == s.mode = "level" /\ get_current_task(s) # NoTask

\* Mutant of give_up_finish: the cursor moves on and nothing is recorded.
give_up_finish_unrecorded(s, task) ==
    LET correct_answer == answer_or_empty(task)
        s2 == goto_next_task(s)
    IN  [s |-> s2,
         r |-> AnswerResult("level", FALSE, <<>>, correct_answer, task,
                            next_task_of(s2), next_task_of(s2) = NoTask, TRUE,
                            "get_solution")]

\* Mutant of give_up_finish: the outcome is recorded, the cursor stays.
give_up_finish_stay(s, task) ==
    LET correct_answer == answer_or_empty(task)
        s1 == [s EXCEPT !.results =
                   Append(@, UserTaskResult(task, <<>>, correct_answer, FALSE, TRUE))]
    IN  [s |-> s1,
         r |-> AnswerResult("level", FALSE, <<>>, correct_answer, task,
                            next_task_of(s1), next_task_of(s1) = NoTask, TRUE,
                            "get_solution")]

\* give_up_and_get_solution_level, after get_solution returned (lines 266-294)
give_up_finish(s, task) ==
    LET correct_answer == answer_or_empty(task)
        s1 == [s EXCEPT !.results =
                   Append(@, UserTaskResult(task, <<>>, correct_answer, FALSE, TRUE))]
        s2 == goto_next_task(s1)
    IN  [s |-> s2,
         r |-> AnswerResult("level", FALSE, <<>>, correct_answer, task,
                            next_task_of(s2), next_task_of(s2) = NoTask, TRUE,
                            "get_solution")]

-----------------------------------------------------------------------------
(* The worker threads *)

IdleCall ==
    [pc |-> "idle", op |-> "-", user |-> "-", task |-> NoTask, user_answer |-> <<>>]

\* A handler runs on a worker thread that is free.
WorkerFree == \E t \in Threads : calls[t].pc = "idle"

\* The count of get_short_answer calls after a call of op for user_id that
\* returned r: a round starts at zero, a call that used get_short_answer
\* (line 160) adds one.
count_short_answer_call(user_id, r, op) ==
    IF op \in {"reset_session", "start_euler_session", "start_level_round"}
    THEN [short_answer_calls EXCEPT ![user_id] = 0]
    ELSE IF r.llm = "get_short_answer"
         THEN [short_answer_calls EXCEPT ![user_id] = @ + 1]
         ELSE short_answer_calls

\* The get_short_answer calls that raise are followed up to
\* MaxShortAnswerCalls calls in a round; a call that returns is always
\* followed.
may_fail(user_id, r) ==
    (r.kind = "raise" /\ r.llm = "get_short_answer")
        => short_answer_calls[user_id] < MaxShortAnswerCalls

\* UserSessionRepository.get_or_create and save: the object of user_id is
\* in the store afterwards, and it is the object the call worked on.
\* Mutant of Store: one session object is handed to every user.
Store_shared(user_id, s, r, op) ==
    /\ sessions' = [u \in AllUsers |-> s]
    /\ created' = created \cup {user_id}
    /\ ret' = [r EXCEPT !.op = op, !.user = user_id]
    /\ short_answer_calls' = count_short_answer_call(user_id, r, op)

\* UserSessionRepository.get_or_create / save: the dict entry of user_id is
\* the only one written.
Store(user_id, s, r, op) ==
    /\ sessions' = [sessions EXCEPT ![user_id] = s]
    /\ created' = created \cup {user_id}
    /\ ret' = [r EXCEPT !.op = op, !.user = user_id]
    /\ short_answer_calls' = count_short_answer_call(user_id, r, op)

-----------------------------------------------------------------------------
(* The service calls, each as one step *)

\* MathTaskService.reset_session -> UserSessionRepository.reset
ResetSession(user_id) ==
    /\ WorkerFree
    /\ Store(user_id, reset(sessions[user_id]), NoRet, "reset_session")
    /\ UNCHANGED <<bot, euler_tasks, calls>>

StartEulerSession(user_id, num_tasks) ==
    /\ WorkerFree
    /\ \E ids \in get_random_tasks(num_tasks) :
          Store(user_id, euler_session(sessions[user_id], ids),
                first_or_none(ids), "start_euler_session")
    /\ UNCHANGED <<bot, euler_tasks, calls>>

StartLevelRound(user_id, level, num_tasks) ==
    /\ WorkerFree
    /\ \E ids \in get_random_tasks_for_level(level, num_tasks) :
          Store(user_id, level_round(sessions[user_id], level, ids),
                first_or_none(ids), "start_level_round")
    /\ UNCHANGED <<bot, euler_tasks, calls>>

RequestAnswer(user_id) ==
    /\ WorkerFree
    /\ LET out == request_answer(sessions[user_id])
       IN  Store(user_id, out.s, out.r, "request_answer")
    /\ UNCHANGED <<bot, euler_tasks, calls>>

\* submit_answer with the get_short_answer call it may make
SubmitAnswer(user_id, user_answer) ==
    /\ WorkerFree
    /\ \E llm \in ShortAnswerOutcomes :
          LET s == sessions[user_id]
              out == IF ~submit_asks_llm(s) THEN submit_answer_local(s, user_answer)
                     ELSE IF llm.ok
                          THEN submit_answer_euler(clear_waiting(s), get_current_task(s),
                                                   user_answer, llm.text)
                          ELSE [s |-> clear_waiting(s), r |-> RetRaise("get_short_answer")]
          IN  /\ may_fail(user_id, out.r)
              /\ Store(user_id, out.s, out.r, "submit_answer")
    /\ UNCHANGED <<bot, euler_tasks, calls>>

\* Mutant of GiveUp: the outcome is recorded before get_solution is called,
\* so it stays recorded when the call raises.
GiveUp_record_first(user_id) ==
    /\ WorkerFree
    /\ \E llm \in TextOutcomes :
          LET s == sessions[user_id]
              done == give_up_finish(s, get_current_task(s))
              out == IF ~give_up_asks_llm(s) THEN [s |-> s, r |-> RetNone]
                     ELSE IF llm.ok THEN done
                          ELSE [s |-> done.s, r |-> RetRaise("get_solution")]
          IN  Store(user_id, out.s, out.r, "give_up")
    /\ UNCHANGED <<bot, euler_tasks, calls>>

\* give_up_and_get_solution_level with its get_solution call
GiveUp(user_id) ==
    /\ WorkerFree
    /\ \E llm \in TextOutcomes :
          LET s == sessions[user_id]
              out == IF ~give_up_asks_llm(s) THEN [s |-> s, r |-> RetNone]
                     ELSE IF llm.ok THEN give_up_finish(s, get_current_task(s))
                          ELSE [s |-> s, r |-> RetRaise("get_solution")]
          IN  Store(user_id, out.s, out.r, "give_up")
    /\ UNCHANGED <<bot, euler_tasks, calls>>

\* give_hint_for_current_task (method "get_hint") and
\* give_solution_for_current_task_euler (method "get_solution")
\* sum(1 for r in session.results if r.is_correct)
count_correct(results) == Cardinality({i \in 1..Len(results) : results[i].is_correct})

\* MathTaskService.get_level_round_summary: None outside a level round,
\* else LevelRoundSummary(level, total, correct_count, results).
get_level_round_summary(s) ==
    IF s.mode # "level" \/ s.level = None THEN RetNone
    ELSE [NoRet EXCEPT !.kind = "summary",
                       !.level = s.level,
                       !.total = Len(s.results),
                       !.correct_count = count_correct(s.results),
                       !.results = s.results]

\* Mutant of AskText: the call withdraws the pending request for an answer.
AskText_clears_waiting(user_id, op, method) ==
    /\ WorkerFree
    /\ \E llm \in TextOutcomes :
          LET s == sessions[user_id]
              r == IF get_current_task(s) = NoTask THEN RetNone
                   ELSE IF llm.ok THEN RetText(method) ELSE RetRaise(method)
          IN  Store(user_id, clear_waiting(s), r, op)
    /\ UNCHANGED <<bot, euler_tasks, calls>>

AskText(user_id, op, method) ==
    /\ WorkerFree
    /\ \E llm \in TextOutcomes :
          LET s == sessions[user_id]
              r == IF get_current_task(s) = NoTask THEN RetNone
                   ELSE IF llm.ok THEN RetText(method) ELSE RetRaise(method)
          IN  Store(user_id, s, r, op)
    /\ UNCHANGED <<bot, euler_tasks, calls>>

\* MathTaskService.get_level_round_summary
GetLevelRoundSummary(user_id) ==
    /\ WorkerFree
    /\ Store(user_id, sessions[user_id], get_level_round_summary(sessions[user_id]), "get_level_round_summary")
    /\ UNCHANGED <<bot, euler_tasks, calls>>

GiveHint(user_id) == AskText(user_id, "give_hint", "get_hint")

GiveSolutionEuler(user_id) == AskText(user_id, "give_solution_euler", "get_solution")

-----------------------------------------------------------------------------
(* The calls that ask the LLM, on a worker thread: the step up to the      *)
(* request, and the step from its answer on. The session is one object,    *)
(* shared by reference with the store and with every other call.           *)

SubmitLocal(user_id, user_answer) ==
    /\ WorkerFree
    /\ ~submit_asks_llm(sessions[user_id])
    /\ LET out == submit_answer_local(sessions[user_id], user_answer)
       IN  Store(user_id, out.s, out.r, "submit_answer")
    /\ UNCHANGED <<bot, euler_tasks, calls>>

SubmitAsk(t, user_id, user_answer) ==
    /\ calls[t].pc = "idle"
    /\ submit_asks_llm(sessions[user_id])
    /\ short_answer_calls[user_id] < MaxShortAnswerCalls
    /\ sessions' = [sessions EXCEPT ![user_id] = clear_waiting(@)]
    /\ created' = created \cup {user_id}
    /\ calls' = [calls EXCEPT ![t] = [pc |-> "llm", op |-> "submit_answer",
                                      user |-> user_id,
                                      task |-> get_current_task(sessions[user_id]),
                                      user_answer |-> user_answer]]
    /\ UNCHANGED <<bot, euler_tasks, ret, short_answer_calls>>

SubmitAnswered(t) ==
    /\ calls[t].pc = "llm"
    /\ calls[t].op = "submit_answer"
    /\ \E llm \in ShortAnswerOutcomes :
          LET s == sessions[calls[t].user]
              out == IF llm.ok
                     THEN submit_answer_euler(s, calls[t].task, calls[t].user_answer,
                                              llm.text)
                     ELSE [s |-> s, r |-> RetRaise("get_short_answer")]
          IN  Store(calls[t].user, out.s, out.r, "submit_answer")
    /\ calls' = [calls EXCEPT ![t] = IdleCall]
    /\ UNCHANGED <<bot, euler_tasks>>

GiveUpLocal(user_id) ==
    /\ WorkerFree
    /\ ~give_up_asks_llm(sessions[user_id])
    /\ Store(user_id, sessions[user_id], RetNone, "give_up")
    /\ UNCHANGED <<bot, euler_tasks, calls>>

GiveUpAsk(t, user_id) ==
    /\ calls[t].pc = "idle"
    /\ give_up_asks_llm(sessions[user_id])
    /\ created' = created \cup {user_id}
    /\ calls' = [calls EXCEPT ![t] = [pc |-> "llm", op |-> "give_up",
                                      user |-> user_id,
                                      task |-> get_current_task(sessions[user_id]),
                                      user_answer |-> <<>>]]
    /\ UNCHANGED <<bot, euler_tasks, sessions, ret, short_answer_calls>>

GiveUpAnswered(t) ==
    /\ calls[t].pc = "llm"
    /\ calls[t].op = "give_up"
    /\ \E llm \in TextOutcomes :
          LET s == sessions[calls[t].user]
              out == IF llm.ok THEN give_up_finish(s, calls[t].task)
                     ELSE [s |-> s, r |-> RetRaise("get_solution")]
          IN  Store(calls[t].user, out.s, out.r, "give_up")
    /\ calls' = [calls EXCEPT ![t] = IdleCall]
    /\ UNCHANGED <<bot, euler_tasks>>

-----------------------------------------------------------------------------
(* The specifications *)

-----------------------------------------------------------------------------
(* TelegramMathBot: the buttons, and which handler a pressed button goes to *)

\* The chats a message or a button press may come from: the private chat of
\* a user has the user's id, any other chat has another id.
Chats == AllUsers

\* num_tasks of handle_euler_entry, also printed as the total.
EulerRoundSize == 10

\* num_tasks of the level handlers, also printed as the total.
LevelRoundSize == 5

\* callback_data f"{prefix}_{name}:{task_id}" of a button under a task
TaskButton(prefix, name, task_id) ==
    [prefix |-> prefix, name |-> name, has_id |-> TRUE, task_id |-> task_id]

\* callback_data without a task id: "stop", "to_menu", "level_next",
\* "level_retry" (prefix "level_", names "next" and "retry")
PlainButton(prefix, name) ==
    [prefix |-> prefix, name |-> name, has_id |-> FALSE, task_id |-> NoTask]

\* TelegramMathBot._task_inline_keyboard
task_inline_keyboard(mode, task_id) ==
    LET prefix == IF mode = "euler" THEN "euler_" ELSE "level_"
    IN  { TaskButton(prefix, "answer", task_id),
          TaskButton(prefix, "hint", task_id),
          TaskButton(prefix, "solution", task_id),
          PlainButton("", "stop") }

\* TelegramMathBot._after_level_round_keyboard
after_level_round_keyboard(can_go_next) ==
    (IF can_go_next THEN {PlainButton("level_", "next")} ELSE {})
        \cup {PlainButton("level_", "retry"), PlainButton("", "to_menu")}

\* Every button the bot can have put into a chat: the chat keeps them, and
\* they can be pressed at any later time.
Buttons ==
    UNION {task_inline_keyboard("euler", id) : id \in 1..NumEulerTasks}
    \cup UNION {task_inline_keyboard("level", id) : id \in LevelTaskIds}
    \cup after_level_round_keyboard(TRUE)

\* c.data.startswith(prefix), for the prefixes "euler_" and "level_"
startswith(data, prefix) == data.prefix = prefix

\* The callback query handlers, in the order they are registered.
CallbackHandlers ==
    << "handle_stop_callback", "handle_euler_callbacks",
       "handle_level_callbacks", "handle_level_after_round" >>

\* The func= filter of each callback query handler
callback_filter(handler, data) ==
    CASE handler = "handle_stop_callback" -> data = PlainButton("", "stop")
      [] handler = "handle_euler_callbacks" -> startswith(data, "euler_")
      [] handler = "handle_level_callbacks" -> startswith(data, "level_")
      [] handler = "handle_level_after_round" ->
            data \in { PlainButton("level_", "next"), PlainButton("level_", "retry"),
                       PlainButton("", "to_menu") }

\* telebot runs the first registered handler whose filter accepts the update.
dispatch_callback(data) ==
    LET accepting == {i \in 1..Len(CallbackHandlers) : callback_filter(CallbackHandlers[i], data)}
    IN  IF accepting = {} THEN "-"
        ELSE CallbackHandlers[CHOOSE i \in accepting : \A j \in accepting : i <= j]

\* What the handler that ran last did: which handler, for which user, chat
\* and button, whether it ended in an exception, the task it presented with
\* the position and total it printed, and the round summary it sent.
NoBot ==
    [ handler         |-> "-",
      user            |-> "-",
      chat            |-> "-",
      data            |-> PlainButton("", "-"),
      raised          |-> FALSE,
      shown_task      |-> NoTask,
      shown_position  |-> 0,
      shown_total     |-> 0,
      summary_sent    |-> FALSE,
      summary_level   |-> None,
      summary_total   |-> 0,
      summary_correct |-> 0,
      can_go_next     |-> FALSE ]

\* The handler starts running.
Handling(handler, user_id, chat_id, data) ==
    [NoBot EXCEPT !.handler = handler, !.user = user_id, !.chat = chat_id, !.data = data]

\* _send_euler_task / _send_level_task: the task is presented as
\* "task index + 1 of total".
send_task(b, task, index, total) ==
    [b EXCEPT !.shown_task = task,
              !.shown_position = index + 1,
              !.shown_total = total]

\* _send_level_summary
send_level_summary(b, summary) ==
    [b EXCEPT !.summary_sent = TRUE,
              !.summary_level = summary.level,
              !.summary_total = summary.total,
              !.summary_correct = summary.correct_count,
              !.can_go_next = (summary.correct_count = summary.total /\ summary.level \in LevelSet)]

-----------------------------------------------------------------------------
(* TelegramMathBot: the handlers, each as one step with the service calls  *)
(* it makes                                                                *)

\* A handler step that works on the session of user_id alone: the session
\* and the return value of its last service call are stored, b is what the
\* handler sent.
Handled(user_id, s, r, op, b) ==
    /\ WorkerFree
    /\ Store(user_id, s, r, op)
    /\ bot' = b
    /\ UNCHANGED <<euler_tasks, calls>>

\* The handlers that reset the session and show the main menu.
reset_and_menu(handler, user_id, chat_id, data) ==
    Handled(user_id, reset(sessions[user_id]), NoRet, "reset_session",
            Handling(handler, user_id, chat_id, data))

handle_start(user_id, chat_id) ==
    reset_and_menu("handle_start", user_id, chat_id, PlainButton("", "-"))

handle_stop(user_id, chat_id) ==
    reset_and_menu("handle_stop", user_id, chat_id, PlainButton("", "-"))

handle_level_entry(user_id, chat_id) ==
    reset_and_menu("handle_level_entry", user_id, chat_id, PlainButton("", "-"))

handle_euler_entry(user_id, chat_id) ==
    \E ids \in get_random_tasks(EulerRoundSize) :
        LET s == euler_session(sessions[user_id], ids)
            first_task == first_or_none(ids)
            b == Handling("handle_euler_entry", user_id, chat_id, PlainButton("", "-"))
        IN  Handled(user_id, s, first_task, "start_euler_session",
                    IF first_task.kind = "none" THEN b
                    ELSE send_task(b, first_task.task, 0, EulerRoundSize))

\* start_level_round(user_id, level, num_tasks=5) and the first task, as
\* handle_level_choice and handle_level_after_round do it
start_round_and_send(b, user_id, level) ==
    \E ids \in get_random_tasks_for_level(level, LevelRoundSize) :
        LET s == level_round(sessions[user_id], level, ids)
            first_task == first_or_none(ids)
        IN  Handled(user_id, s, first_task, "start_level_round",
                    IF first_task.kind = "none" THEN b
                    ELSE send_task(b, first_task.task, 0, LevelRoundSize))

handle_level_choice(user_id, chat_id, level) ==
    start_round_and_send(Handling("handle_level_choice", user_id, chat_id, PlainButton("", "-")),
                         user_id, level)

handle_stop_callback(user_id, chat_id, data) ==
    reset_and_menu("handle_stop_callback", user_id, chat_id, data)

\* action, raw_id = data.split(":") raises ValueError when the data has no
\* ":" part: the handler ends there, before any service call.
split_raises(handler, user_id, chat_id, data) ==
    /\ WorkerFree
    /\ bot' = [Handling(handler, user_id, chat_id, data) EXCEPT !.raised = TRUE]
    /\ UNCHANGED <<euler_tasks, sessions, created, calls, ret, short_answer_calls>>

\* The "answer" branch of both per-task handlers
answer_branch(b, user_id) ==
    LET out == request_answer(sessions[user_id])
    IN  Handled(user_id, out.s, out.r, "request_answer", b)

\* The "hint" branch of both per-task handlers, and "euler_solution"
text_branch(b, user_id, op, method) ==
    \E llm \in TextOutcomes :
        LET s == sessions[user_id]
            r == IF get_current_task(s) = NoTask THEN RetNone
                 ELSE IF llm.ok THEN RetText(method) ELSE RetRaise(method)
        IN  Handled(user_id, s, r, op, [b EXCEPT !.raised = (r.kind = "raise")])

\* The "level_solution" branch
give_up_branch(b, user_id) ==
    \E llm \in TextOutcomes :
        LET s == sessions[user_id]
            out == IF ~give_up_asks_llm(s) THEN [s |-> s, r |-> RetNone]
                   ELSE IF llm.ok THEN give_up_finish(s, get_current_task(s))
                        ELSE [s |-> s, r |-> RetRaise("get_solution")]
            summary == get_level_round_summary(out.s)
        IN  IF out.r.kind # "answer"
            THEN Handled(user_id, out.s, out.r, "give_up",
                         [b EXCEPT !.raised = (out.r.kind = "raise")])
            ELSE IF out.r.next_task # NoTask
                 THEN Handled(user_id, out.s, out.r, "give_up",
                              send_task(b, out.r.next_task, 0, LevelRoundSize))
                 ELSE /\ WorkerFree
                      /\ Store(user_id, out.s, out.r, "give_up")
                      /\ bot' = IF summary.kind = "summary" THEN send_level_summary(b, summary)
                                ELSE b
                      /\ UNCHANGED <<euler_tasks, calls>>

handle_euler_callbacks(user_id, chat_id, data) ==
    LET b == Handling("handle_euler_callbacks", user_id, chat_id, data)
    IN  IF ~data.has_id THEN split_raises("handle_euler_callbacks", user_id, chat_id, data)
        ELSE CASE data.name = "answer" -> answer_branch(b, user_id)
               [] data.name = "hint" -> text_branch(b, user_id, "give_hint", "get_hint")
               [] data.name = "solution" ->
                     text_branch(b, user_id, "give_solution_euler", "get_solution")

handle_level_callbacks(user_id, chat_id, data) ==
    LET b == Handling("handle_level_callbacks", user_id, chat_id, data)
    IN  IF ~data.has_id THEN split_raises("handle_level_callbacks", user_id, chat_id, data)
        ELSE CASE data.name = "answer" -> answer_branch(b, user_id)
               [] data.name = "hint" -> text_branch(b, user_id, "give_hint", "get_hint")
               [] data.name = "solution" -> give_up_branch(b, user_id)

\* LEVELS.index(level) + 1, as a place in LEVELS
level_index(level) == CHOOSE i \in 1..Len(LEVELS) : LEVELS[i] = level

handle_level_after_round(user_id, chat_id, data) ==
    LET b == Handling("handle_level_after_round", user_id, chat_id, data)
        session_summary == get_level_round_summary(sessions[user_id])
        current_level == session_summary.level
    IN  IF data = PlainButton("", "to_menu")
        THEN reset_and_menu("handle_level_after_round", user_id, chat_id, data)
        ELSE IF session_summary.kind = "none"
        THEN Handled(user_id, sessions[user_id], session_summary, "get_level_round_summary", b)
        ELSE IF data = PlainButton("level_", "retry")
        THEN start_round_and_send(b, user_id, current_level)
        ELSE IF current_level \notin LevelSet \/ level_index(current_level) + 1 > Len(LEVELS)
        THEN Handled(user_id, sessions[user_id], session_summary, "get_level_round_summary", b)
        ELSE start_round_and_send(b, user_id, LEVELS[level_index(current_level) + 1])

\* A button is pressed: telebot picks the handler.
CallbackQuery(user_id, chat_id, data) ==
    LET handler == dispatch_callback(data)
    IN  CASE handler = "handle_stop_callback" -> handle_stop_callback(user_id, chat_id, data)
          [] handler = "handle_euler_callbacks" -> handle_euler_callbacks(user_id, chat_id, data)
          [] handler = "handle_level_callbacks" -> handle_level_callbacks(user_id, chat_id, data)
          [] handler = "handle_level_after_round" -> handle_level_after_round(user_id, chat_id, data)

\* _process_answer_result(chat_id, result): what follows an answer that
\* submit_answer took. The summary is asked for with chat_id as the key.
process_answer_result(b, chat_id, result, s) ==
    LET summary == get_level_round_summary(IF chat_id = b.user THEN s ELSE sessions[chat_id])
    IN  IF result.mode = "euler"
        THEN IF result.next_task # NoTask
             THEN send_task(b, result.next_task, 0, EulerRoundSize)
             ELSE b
        ELSE IF result.mode = "level" /\ result.is_correct
        THEN IF result.next_task # NoTask
             THEN send_task(b, result.next_task, 0, LevelRoundSize)
             ELSE IF summary.kind = "summary" THEN send_level_summary(b, summary) ELSE b
        ELSE b

\* The round of a level ended with an accepted answer, so the handler asks
\* for the summary.
asks_summary(result) ==
    result.kind = "answer" /\ result.mode = "level" /\ result.is_correct /\ result.next_task = NoTask

handle_free_text(user_id, chat_id, text) ==
    LET b == Handling("handle_free_text", user_id, chat_id, PlainButton("", "-"))
        s == sessions[user_id]
    IN  IF ~is_waiting_for_answer(s)
        THEN Handled(user_id, s, [NoRet EXCEPT !.kind = "void"], "is_waiting_for_answer", b)
        ELSE /\ \E llm \in ShortAnswerOutcomes :
                  LET out == IF ~submit_asks_llm(s) THEN submit_answer_local(s, text)
                             ELSE IF llm.ok
                                  THEN submit_answer_euler(clear_waiting(s), get_current_task(s),
                                                           text, llm.text)
                                  ELSE [s |-> clear_waiting(s), r |-> RetRaise("get_short_answer")]
                  IN  /\ WorkerFree
                      /\ may_fail(user_id, out.r)
                      /\ sessions' = [sessions EXCEPT ![user_id] = out.s]
                      /\ created' = created \cup {user_id}
                                      \cup (IF asks_summary(out.r) THEN {chat_id} ELSE {})
                      /\ ret' = [out.r EXCEPT !.op = "submit_answer", !.user = user_id]
                      /\ short_answer_calls' = count_short_answer_call(user_id, out.r, "submit_answer")
                      /\ bot' = IF out.r.kind = "answer"
                                THEN process_answer_result(b, chat_id, out.r, out.s)
                                ELSE [b EXCEPT !.raised = (out.r.kind = "raise")]
                      /\ UNCHANGED <<euler_tasks, calls>>

-----------------------------------------------------------------------------
(* The comparison of an answer with the reference answer, on its own *)

\* _submit_answer_level lines 203-204, _submit_answer_euler line 161
CompareAnswers(user_answer, correct_answer) ==
    /\ ret' = [NoRet EXCEPT !.op = "compare",
                            !.kind = "answer",
                            !.user_answer = user_answer,
                            !.correct_answer = correct_answer,
                            !.is_correct = answers_match(user_answer, correct_answer)]
    /\ UNCHANGED <<bot, euler_tasks, sessions, created, calls, short_answer_calls>>

NumTasksRange == 1..MaxNumTasks

Init ==
    /\ euler_tasks \in SUBSET (1..NumEulerTasks)
    /\ sessions = [u \in AllUsers |-> NewSession]
    /\ created = {}
    /\ calls = [t \in Threads |-> IdleCall]
    /\ ret = NoRet
    /\ short_answer_calls = [u \in AllUsers |-> 0]
    /\ bot = NoBot

Next ==
    \/ \E u \in Users : ResetSession(u)
    \/ \E u \in Users, n \in NumTasksRange : StartEulerSession(u, n)
    \/ \E u \in Users, l \in LevelSet, n \in NumTasksRange : StartLevelRound(u, l, n)
    \/ \E u \in Users : RequestAnswer(u)
    \/ \E u \in Users, a \in UserAnswers : SubmitAnswer(u, a)
    \/ \E u \in Users : GiveUp(u)
    \/ \E u \in Users : GiveHint(u)
    \/ \E u \in Users : GiveSolutionEuler(u)
    \/ \E u \in Users : GetLevelRoundSummary(u)

Spec == Init /\ [][Next]_vars

NextThreads ==
    \/ \E u \in Users : ResetSession(u)
    \/ \E u \in Users, n \in NumTasksRange : StartEulerSession(u, n)
    \/ \E u \in Users, l \in LevelSet, n \in NumTasksRange : StartLevelRound(u, l, n)
    \/ \E u \in Users : RequestAnswer(u)
    \/ \E u \in Users, a \in UserAnswers : SubmitLocal(u, a)
    \/ \E t \in Threads, u \in Users, a \in UserAnswers : SubmitAsk(t, u, a)
    \/ \E t \in Threads : SubmitAnswered(t)
    \/ \E u \in Users : GiveUpLocal(u)
    \/ \E t \in Threads, u \in Users : GiveUpAsk(t, u)
    \/ \E t \in Threads : GiveUpAnswered(t)

SpecThreads == Init /\ [][NextThreads]_vars

\* The answers the two users send: a right and a wrong one for task 1.
TwoUserAnswers == { <<"4", "2">>, <<"4", "3">> }

\* The calls of two users, in any order.
NextUsers ==
    \/ \E u \in AllUsers : ResetSession(u)
    \/ \E u \in AllUsers : StartEulerSession(u, 1)
    \/ \E u \in AllUsers : StartLevelRound(u, "g5", MaxNumTasks)
    \/ \E u \in AllUsers : RequestAnswer(u)
    \/ \E u \in AllUsers, a \in TwoUserAnswers : SubmitAnswer(u, a)
    \/ \E u \in AllUsers : GiveUp(u)

SpecUsers == Init /\ [][NextUsers]_vars

\* The bot: one user, who uses the menu in the private chat and presses
\* buttons and sends answers there or in another chat, in any order.
NextBot ==
    \E u \in Users :
        \/ handle_start(u, u)
        \/ handle_stop(u, u)
        \/ handle_euler_entry(u, u)
        \/ handle_level_entry(u, u)
        \/ \E level \in LevelSet : handle_level_choice(u, u, level)
        \/ \E chat \in Chats, data \in Buttons : CallbackQuery(u, chat, data)
        \/ \E chat \in Chats, text \in TwoUserAnswers : handle_free_text(u, chat, text)

SpecBot == Init /\ [][NextBot]_vars

NextCompare == \E a \in AnswerTexts, b \in ReferenceAnswers : CompareAnswers(a, b)

SpecCompare == Init /\ [][NextCompare]_vars

-----------------------------------------------------------------------------
(* Shorthands of the properties *)

cursor(u) == sessions[u].current_index

queue(u) == sessions[u].current_task_ids

\* The step is the return of the service call op of user u.
Returned(u, op) == ret'.op = op /\ ret'.user = u

\* The results after the step are the results before it and one outcome more.
AppendedOne(u) ==
    /\ Len(sessions'[u].results) = Len(sessions[u].results) + 1
    /\ SubSeq(sessions'[u].results, 1, Len(sessions[u].results)) = sessions[u].results

LastResult(u) == sessions'[u].results[Len(sessions'[u].results)]

\* The text is normalized-equal to the answer key of the level task.
MatchesKey(text, task) ==
    normalize_answer(text) = normalize_answer(answer_or_empty(task))

\* Worker t returns from its LLM call in this step.
Completes(t) == calls[t].pc = "llm" /\ calls'[t].pc = "idle"

-----------------------------------------------------------------------------
(* C1..C10 *)

\* C1: in every state reached by service calls made one after another, a
\* session with waiting_for_answer set has expected_task_id set, the cursor
\* inside the queue, and expected_task_id = current_task_ids[current_index].
C1_AwaitingIsCurrent ==
    \A u \in Users :
        sessions[u].waiting_for_answer =>
            /\ sessions[u].expected_task_id # NoTask
            /\ has_active_tasks(sessions[u])
            /\ sessions[u].expected_task_id = get_current_task_id(sessions[u])

\* C2: with the calls made one after another, 0 <= current_index <=
\* len(current_task_ids) in every state, and no call other than a round
\* start or a reset decreases current_index.
C2_CursorBoundedMonotone ==
    /\ [](\A u \in Users : 0 <= cursor(u) /\ cursor(u) <= Len(queue(u)))
    /\ [][\A u \in Users :
            ret'.op \notin {"reset_session", "start_euler_session", "start_level_round"}
                => sessions'[u].current_index >= sessions[u].current_index]_vars

\* C2 witness: the cursor has moved through a queue of two tasks to its end.
C2_Witness ==
    \E u \in Users : cursor(u) = 2 /\ Len(queue(u)) = 2

\* C3: in level mode, a submit_answer accepted for the current task whose
\* text is normalized-equal to the answer key moves the cursor on by exactly
\* one and appends exactly one outcome: is_correct, not gave_up, task_id the
\* task that was current.
C3_CorrectLevelAnswerAdvances ==
    [][\A u \in Users :
          ( /\ Returned(u, "submit_answer")
            /\ sessions[u].mode = "level"
            /\ submit_guard(sessions[u]) = "accepted"
            /\ MatchesKey(ret'.user_answer, get_current_task(sessions[u])) )
          => /\ ret'.kind = "answer"
             /\ sessions'[u].current_index = sessions[u].current_index + 1
             /\ AppendedOne(u)
             /\ LastResult(u).is_correct
             /\ ~LastResult(u).gave_up
             /\ LastResult(u).task_id = get_current_task(sessions[u])]_vars

\* C3 witness: a level answer was judged correct though its text differs
\* from the key as written (case or spaces), and the cursor moved.
C3_Witness ==
    /\ ret.op = "submit_answer" /\ ret.kind = "answer" /\ ret.mode = "level"
    /\ ret.is_correct
    /\ ret.user_answer # ret.correct_answer
    /\ cursor(ret.user) >= 1

\* C4: in level mode, a submit_answer accepted for the current task whose
\* text is not normalized-equal to the answer key leaves the cursor and the
\* results as they were and returns the same task as next_task, with
\* finished_round false and is_correct false.
C4_WrongLevelAnswerRetries ==
    [][\A u \in Users :
          ( /\ Returned(u, "submit_answer")
            /\ sessions[u].mode = "level"
            /\ submit_guard(sessions[u]) = "accepted"
            /\ ret'.kind = "answer"
            /\ ~MatchesKey(ret'.user_answer, get_current_task(sessions[u])) )
          => /\ sessions'[u].current_index = sessions[u].current_index
             /\ sessions'[u].results = sessions[u].results
             /\ ret'.task = get_current_task(sessions[u])
             /\ ret'.next_task = ret'.task
             /\ ~ret'.finished_round
             /\ ~ret'.is_correct]_vars

\* C4 witness: a wrong level answer came back as a retry of the same task.
C4_Witness ==
    /\ ret.op = "submit_answer" /\ ret.kind = "answer" /\ ret.mode = "level"
    /\ ~ret.is_correct
    /\ ret.next_task = get_current_task(sessions[ret.user])
    /\ ret.next_task # NoTask

\* C5: in euler mode, a submit_answer accepted for the current task for
\* which get_short_answer returned moves the cursor on by exactly one, the
\* text matching the short answer or not, and the results stay empty.
C5_EulerAnswerAlwaysAdvances ==
    [][\A u \in Users :
          ( /\ Returned(u, "submit_answer")
            /\ sessions[u].mode = "euler"
            /\ submit_guard(sessions[u]) = "accepted"
            /\ ret'.kind # "raise" )
          => /\ ret'.kind = "answer"
             /\ sessions'[u].current_index = sessions[u].current_index + 1
             /\ sessions'[u].results = <<>>]_vars

\* C5 witness: an euler answer that did not match the short answer moved the
\* cursor.
C5_Witness ==
    /\ ret.op = "submit_answer" /\ ret.kind = "answer" /\ ret.mode = "euler"
    /\ ~ret.is_correct
    /\ cursor(ret.user) >= 1

\* C6: in level mode, give_up with a current task (an answer awaited or not)
\* whose get_solution call returned moves the cursor on by exactly one and
\* appends exactly one outcome: gave_up, not is_correct, user_answer empty,
\* task_id the task that was current.
C6_GiveUpAdvancesAndRecords ==
    [][\A u \in Users :
          ( /\ Returned(u, "give_up")
            /\ sessions[u].mode = "level"
            /\ get_current_task(sessions[u]) # NoTask
            /\ ret'.kind # "raise" )
          => /\ ret'.kind = "answer"
             /\ sessions'[u].current_index = sessions[u].current_index + 1
             /\ AppendedOne(u)
             /\ LastResult(u).gave_up
             /\ ~LastResult(u).is_correct
             /\ LastResult(u).user_answer = <<>>
             /\ LastResult(u).task_id = get_current_task(sessions[u])]_vars

\* C6 witness: give_up was called while an answer was awaited, and recorded
\* the task it was called on.
C6_Witness ==
    /\ ret.op = "give_up" /\ ret.kind = "answer" /\ ret.gave_up
    /\ sessions[ret.user].expected_task_id = ret.task
    /\ Len(sessions[ret.user].results) >= 1

\* C7: after give_up has returned in level mode, waiting_for_answer is false
\* and expected_task_id is unset.
C7_GiveUpClearsAwaiting ==
    (ret.op = "give_up" /\ ret.kind = "answer") =>
        /\ ~sessions[ret.user].waiting_for_answer
        /\ sessions[ret.user].expected_task_id = NoTask

\* C8: of two calls (give_up, or submit_answer) running at once for one user
\* and one task, only one takes effect: a call that completes for a task the
\* cursor has already moved past leaves the cursor and the results alone.
C8_ConcurrentCallsApplyOnce ==
    [][\A t \in Threads :
          LET u == calls[t].user
          IN  ( /\ Completes(t)
                /\ ret'.kind = "answer"
                /\ cursor(u) >= 1
                /\ cursor(u) <= Len(queue(u))
                /\ queue(u)[cursor(u)] = calls[t].task )
              => /\ sessions'[u].current_index = sessions[u].current_index
                 /\ sessions'[u].results = sessions[u].results]_vars

\* C9: an LLM call that completes after its user's session was reset (the
\* session is idle: no mode) is discarded, the session stays as the reset
\* left it.
C9_StaleLLMResultDiscarded ==
    [][\A t \in Threads :
          (Completes(t) /\ sessions[calls[t].user].mode = None)
              => sessions'[calls[t].user] = sessions[calls[t].user]]_vars

\* C10: submit_answer called with waiting_for_answer false returns None and
\* leaves every field of the session as it was.
C10_SubmitNotAwaitingIsNoOp ==
    [][\A u \in Users :
          (Returned(u, "submit_answer") /\ ~sessions[u].waiting_for_answer)
              => /\ ret'.kind = "none"
                 /\ sessions'[u] = sessions[u]]_vars

\* C10 witness: submit_answer returned None in a round with a current task.
C10_Witness ==
    /\ ret.op = "submit_answer" /\ ret.kind = "none"
    /\ get_current_task(sessions[ret.user]) # NoTask
    /\ ~sessions[ret.user].waiting_for_answer

-----------------------------------------------------------------------------
(* C11..C20 *)

\* The call that returned last ended in one of the failures C11 names: a
\* submit_answer that returned None or whose LLM call raised, a level-mode
\* give_up whose LLM call raised, a give_up or request_answer that found no
\* current task, a round start with an empty sample.
EndedInFailure ==
    \/ ret.op = "submit_answer" /\ ret.kind \in {"none", "raise"}
    \/ ret.op = "give_up" /\ ret.kind = "raise"
    \/ /\ ret.op \in {"give_up", "request_answer"}
       /\ ret.kind = "none"
       /\ get_current_task(sessions[ret.user]) = NoTask
    \/ ret.op \in {"start_euler_session", "start_level_round"} /\ ret.kind = "none"

\* C11: after a call has ended in a failure or an absence (NotAwaiting,
\* stale submission, LLM failure, no current task, empty sample),
\* waiting_for_answer is false and expected_task_id is unset.
C11_FailureClearsAwaiting ==
    EndedInFailure =>
        /\ ~sessions[ret.user].waiting_for_answer
        /\ sessions[ret.user].expected_task_id = NoTask

\* The step leaves the round of user u as it was: mode, level, queue, cursor
\* and results.
RoundUntouched(u) ==
    /\ sessions'[u].mode = sessions[u].mode
    /\ sessions'[u].level = sessions[u].level
    /\ sessions'[u].current_task_ids = sessions[u].current_task_ids
    /\ sessions'[u].current_index = sessions[u].current_index
    /\ sessions'[u].results = sessions[u].results

\* C12 as claimed: a call whose LLM call fails raises and leaves the stored
\* session exactly as it was before the call, the awaiting flags included.
C12_LLMFailureLeavesSession ==
    [][\A u \in Users :
          (ret'.kind = "raise" /\ ret'.user = u) => sessions'[u] = sessions[u]]_vars

\* C12 as amended: a call whose LLM call fails raises and leaves mode, level,
\* queue, cursor and results as they were; hint, solution and give_up leave
\* the awaiting flags too, submit_answer has cleared them.
C12_LLMFailureLeavesRound ==
    [][\A u \in Users :
          (ret'.kind = "raise" /\ ret'.user = u)
          => /\ RoundUntouched(u)
             /\ ret'.op # "submit_answer" => sessions'[u] = sessions[u]
             /\ ret'.op = "submit_answer" =>
                    /\ ~sessions'[u].waiting_for_answer
                    /\ sessions'[u].expected_task_id = NoTask]_vars

\* C12 witness: the LLM call of an euler submit_answer has failed; the task
\* is still current and no answer is awaited any more.
C12_Witness ==
    /\ ret.op = "submit_answer" /\ ret.kind = "raise"
    /\ sessions[ret.user].mode = "euler"
    /\ get_current_task(sessions[ret.user]) # NoTask
    /\ ~sessions[ret.user].waiting_for_answer

\* C13: after a start_round whose sample was empty returned the no-task
\* signal, the session is not in a round: mode is none.
C13_EmptySampleLeavesIdle ==
    (ret.op \in {"start_euler_session", "start_level_round"} /\ ret.kind = "none")
    => sessions[ret.user].mode = None

\* The outcomes of s that are not correct.
count_incorrect(s) == Cardinality({i \in 1..Len(s.results) : ~s.results[i].is_correct})

\* C14: in every state of a level round the summary has
\* total = len(results) = correct_count + #(outcomes not correct), and
\* total <= len(queue).
C14_SummaryCounts ==
    \A u \in AllUsers :
        (sessions[u].mode = "level" /\ sessions[u].level # None)
        => LET sm == get_level_round_summary(sessions[u])
           IN  /\ sm.kind = "summary"
               /\ sm.total = Len(sessions[u].results)
               /\ sm.results = sessions[u].results
               /\ sm.total = sm.correct_count + count_incorrect(sessions[u])
               /\ sm.total <= Len(queue(u))

\* C14 witness: the summary of a two-task round was returned with one
\* correct outcome and one that is not.
C14_Witness ==
    /\ ret.op = "get_level_round_summary" /\ ret.kind = "summary"
    /\ ret.total = 2 /\ ret.correct_count = 1
    /\ Len(queue(ret.user)) = 2

\* C15: request_answer called twice in succession leaves the session as the
\* first call left it, and both calls return the same task.  In every state
\* a request_answer has just returned in, the next request_answer changes
\* neither the session nor the return value.
C15_RequestAnswerIdempotent ==
    \A u \in Users :
        (ret.op = "request_answer" /\ ret.user = u)
        => LET again == request_answer(sessions[u])
           IN  /\ again.s = sessions[u]
               /\ again.r.kind = ret.kind
               /\ again.r.task = ret.task

\* C15 witness: request_answer has returned the current task and the
\* session awaits its answer.
C15_Witness ==
    /\ ret.op = "request_answer" /\ ret.kind = "task"
    /\ ret.task = get_current_task(sessions[ret.user])
    /\ is_waiting_for_answer(sessions[ret.user])

Min(a, b) == IF a <= b THEN a ELSE b

\* The ids of the catalogue's tasks of a level.
Partition(level) ==
    {LevelCatalogue[i].id : i \in {j \in 1..Len(LevelCatalogue) : LevelCatalogue[j].level = level}}

\* q holds min(n, available) pairwise-distinct ids of pool, all of pool when
\* n >= available.
SampledFrom(q, n, pool) ==
    /\ Len(q) = Min(n, Cardinality(pool))
    /\ \A i, j \in 1..Len(q) : i # j => q[i] # q[j]
    /\ Range(q) \subseteq pool
    /\ n >= Cardinality(pool) => Range(q) = pool

\* C16: start_round(n) sets the queue to exactly min(n, available)
\* pairwise-distinct ids of the requested partition (the level's tasks, the
\* euler set), a permutation of all of them when n >= available.
C16_StartRoundSamples ==
    [][\A u \in Users, n \in NumTasksRange :
          /\ StartEulerSession(u, n)
             => SampledFrom(sessions'[u].current_task_ids, n, euler_tasks)
          /\ \A l \in LevelSet :
                StartLevelRound(u, l, n)
                => SampledFrom(sessions'[u].current_task_ids, n, Partition(l))]_vars

\* C16 witness: a level round was started with one task of a level that has
\* two, and an euler round could take both euler tasks.
C16_Witness ==
    /\ ret.op = "start_level_round" /\ ret.kind = "task"
    /\ Cardinality(Partition(sessions[ret.user].level)) = 2
    /\ Len(queue(ret.user)) = 1
    /\ Cardinality(euler_tasks) = 2

\* The level round of user u has reached completion.
LevelRoundComplete(u) ==
    /\ sessions[u].mode = "level" /\ sessions[u].level # None
    /\ cursor(u) = Len(queue(u))

\* Some task of the round of user u was given up.
SomeGaveUp(u) == \E i \in 1..Len(sessions[u].results) : sessions[u].results[i].gave_up

\* C17: when a level round is complete (cursor = len(queue)) the summary has
\* total = len(queue), and correct_count = total exactly when no task of the
\* round was given up, whatever wrong answers preceded the correct ones.
C17_PerfectClearIffNoGiveUp ==
    \A u \in AllUsers :
        LevelRoundComplete(u)
        => LET sm == get_level_round_summary(sessions[u])
           IN  /\ sm.total = Len(queue(u))
               /\ (sm.correct_count = sm.total) <=> ~SomeGaveUp(u)

\* C17 witness: a two-task level round was completed by a correct answer,
\* with the other task given up.
C17_Witness ==
    /\ ret.op = "submit_answer" /\ ret.is_correct /\ ret.finished_round
    /\ LevelRoundComplete(ret.user)
    /\ Len(queue(ret.user)) = 2
    /\ SomeGaveUp(ret.user)
    /\ count_correct(sessions[ret.user].results) = 1

\* The step is a submit_answer that was accepted: it returned an AnswerResult.
AcceptedSubmission == ret'.op = "submit_answer" /\ ret'.kind = "answer"

\* C18: within an euler round the cursor counts the accepted submissions,
\* right or wrong: each moves it by one and nothing else moves it; the
\* submission reports finished_round exactly when it brings the cursor to
\* len(queue), and the round has no recorded outcome.
C18_EulerCompletesOnKth ==
    [][\A u \in Users :
          (/\ sessions[u].mode = "euler" /\ sessions'[u].mode = "euler"
           /\ ret'.user = u /\ ret'.op # "start_euler_session")
          => /\ queue(u)' = queue(u)
             /\ sessions'[u].results = <<>>
             /\ IF AcceptedSubmission
                THEN /\ cursor(u)' = cursor(u) + 1
                     /\ ret'.finished_round <=> (cursor(u)' = Len(queue(u)))
                ELSE cursor(u)' = cursor(u)]_vars

\* C18 witness: the second wrong answer of a two-task euler round completed
\* it, with nothing recorded.
C18_Witness ==
    /\ ret.op = "submit_answer" /\ ret.kind = "answer" /\ ret.mode = "euler"
    /\ ~ret.is_correct /\ ret.finished_round
    /\ Len(queue(ret.user)) = 2 /\ cursor(ret.user) = 2
    /\ sessions[ret.user].results = <<>>

\* C19: give_hint and give_solution_euler change no field of the session,
\* and with no current task (no round, or cursor = len(queue)) they return
\* None without calling the LLM.
C19_HintSolutionReadOnly ==
    [][\A u \in Users :
          (ret'.user = u /\ ret'.op \in {"give_hint", "give_solution_euler"})
          => /\ sessions'[u] = sessions[u]
             /\ get_current_task(sessions[u]) = NoTask
                => (ret'.kind = "none" /\ ret'.llm = "no_call")
             /\ get_current_task(sessions[u]) # NoTask
                => (ret'.kind \in {"text", "raise"} /\ ret'.llm # "no_call")]_vars

\* C19 witness: a hint was returned while an answer was awaited, and the
\* answer is still awaited.
C19_Witness ==
    /\ ret.op = "give_hint" /\ ret.kind = "text"
    /\ is_waiting_for_answer(sessions[ret.user])
    /\ sessions[ret.user].expected_task_id = get_current_task(sessions[ret.user])

\* C20: reset takes every reachable session (no round, round active, answer
\* awaited, round complete, either mode) to the idle one: mode None, level
\* None, queue empty, cursor 0, no answer awaited, no results; reset applied
\* twice equals reset applied once; and reset_session leaves that session
\* in the store.
C20_ResetYieldsIdle ==
    /\ \A u \in AllUsers :
          /\ reset(sessions[u]) = NewSession
          /\ reset(reset(sessions[u])) = reset(sessions[u])
    /\ ret.op = "reset_session" => sessions[ret.user] = NewSession

\* C20 witness: a level round with an awaited answer and a recorded outcome,
\* which reset takes to the idle session.
C20_Witness ==
    /\ ret.op = "request_answer" /\ ret.kind = "task"
    /\ sessions[ret.user].mode = "level"
    /\ is_waiting_for_answer(sessions[ret.user])
    /\ Len(sessions[ret.user].results) = 1
    /\ reset(sessions[ret.user]) = NewSession

-----------------------------------------------------------------------------
(* C21..C30 *)

\* An answer is awaited from user u, but not for the current task, or there
\* is no current task.
Stale(u) ==
    /\ sessions[u].waiting_for_answer /\ sessions[u].expected_task_id # NoTask
    /\ \/ get_current_task(sessions[u]) = NoTask
       \/ get_current_task(sessions[u]) # sessions[u].expected_task_id

\* C21: a submit_answer arriving while an answer is awaited for a task that
\* is not the current one (or with no current task) returns None, clears
\* both awaiting flags, leaves cursor and results as they were and calls no
\* LLM method.
C21_StaleSubmissionDiscarded ==
    [][\A u \in Users :
          (Stale(u) /\ ret'.op = "submit_answer" /\ ret'.user = u)
          => /\ ret'.kind = "none" /\ ret'.llm = "no_call"
             /\ ~sessions'[u].waiting_for_answer
             /\ sessions'[u].expected_task_id = NoTask
             /\ RoundUntouched(u)]_vars

\* C21 witness: a submit_answer has returned at the stale branch while the
\* round still has a current task.
C21_Witness ==
    /\ ret.op = "submit_answer" /\ ret.kind = "none" /\ ret.line = 137
    /\ get_current_task(sessions[ret.user]) # NoTask
    /\ ~sessions[ret.user].waiting_for_answer

\* The step is an advancing operation of user u: a call that returned an
\* AnswerResult and moved the cursor.
Advanced(u) ==
    /\ ret'.user = u /\ ret'.kind = "answer"
    /\ ret'.op \in {"submit_answer", "give_up"}
    /\ cursor(u)' = cursor(u) + 1

\* C22: an advancing operation (correct level answer, euler answer, give_up)
\* reports finished_round and no next task exactly when the cursor equals
\* len(queue) after it; otherwise it reports as next task the task
\* queue[cursor] of the advanced cursor.
C22_FinishedIffCursorAtEnd ==
    [][\A u \in Users :
          Advanced(u)
          => /\ ret'.finished_round <=> (cursor(u)' = Len(queue(u)'))
             /\ ret'.finished_round <=> (ret'.next_task = NoTask)
             /\ ~ret'.finished_round
                => ret'.next_task = queue(u)'[cursor(u)' + 1]]_vars

\* C22 witness: a give_up on the first of two tasks reported the second as
\* the next task and the round as not finished.
C22_Witness ==
    /\ ret.op = "give_up" /\ ret.kind = "answer" /\ ~ret.finished_round
    /\ cursor(ret.user) = 1 /\ Len(queue(ret.user)) = 2
    /\ ret.next_task = queue(ret.user)[2]

\* C23: in a level round no task id appears in more than one outcome of
\* results, whatever wrong answers, repeated request_answer calls or stale
\* submissions there were for the task.
C23_OneOutcomePerTask ==
    \A u \in AllUsers :
        sessions[u].mode = "level"
        => \A i, j \in 1..Len(sessions[u].results) :
              i # j => sessions[u].results[i].task_id # sessions[u].results[j].task_id

\* C23 witness: in a two-task level round a wrong answer to the second task
\* was evaluated after the first task's outcome was recorded, and results
\* holds that one outcome only.
C23_Witness ==
    /\ ret.op = "submit_answer" /\ ret.kind = "answer" /\ ~ret.is_correct
    /\ sessions[ret.user].mode = "level"
    /\ Len(sessions[ret.user].results) = 1
    /\ sessions[ret.user].results[1].task_id # ret.task
    /\ get_current_task(sessions[ret.user]) = ret.task

\* Case folding of a character: both sigmas are the small forms of the
\* capital one.
casefold_char(c) == IF c \in {"Σ", "ς"} THEN "σ" ELSE lower_char(c)

\* A text without its leading and trailing whitespace, its internal spaces
\* and its letter case.
Folded(s) ==
    LET t == replace_space(strip(s))
    IN  [i \in 1..Len(t) |-> casefold_char(t[i])]

\* C24: answers are compared normalized, the same way on both sides: two
\* answers that differ only in letter case, in leading or trailing
\* whitespace or in internal spaces are judged equal, answers whose
\* normalized forms differ are judged unequal, and normalizing is idempotent.
C24_NormalizedComparison ==
    ret.op = "compare"
    => /\ Folded(ret.user_answer) = Folded(ret.correct_answer) => ret.is_correct
       /\ normalize_answer(ret.user_answer) # normalize_answer(ret.correct_answer)
          => ~ret.is_correct
       /\ normalize_answer(normalize_answer(ret.user_answer))
          = normalize_answer(ret.user_answer)

\* C25: the sessions of different users are independent: a call made for one
\* user (start of a round, submit_answer, give_up, reset, the creation of
\* the session included) leaves every field of every other user's session
\* as it was.
C25_UsersIndependent ==
    [][\A u \in AllUsers : ret'.user # u => sessions'[u] = sessions[u]]_vars

\* C25 witness: both users are in a level round over the same two tasks, at
\* different cursors and with different results.
C25_Witness ==
    /\ sessions["u1"].mode = "level" /\ sessions["u2"].mode = "level"
    /\ Range(queue("u1")) = Range(queue("u2")) /\ Len(queue("u1")) = 2
    /\ cursor("u1") = 2 /\ cursor("u2") = 0
    /\ Len(sessions["u1"].results) = 2 /\ sessions["u2"].results = <<>>
    /\ ret.user = "u1"

\* User u has no round (Idle) or a completed one (cursor = len(queue)).
IdleOrComplete(u) == sessions[u].mode = None \/ cursor(u) = Len(queue(u))

\* C26: in Idle and in a completed round each of request_answer,
\* submit_answer, give_up, hint and solution returns None rather than
\* raising, calls no LLM method, and leaves cursor, queue and results as
\* they were.
C26_NoTaskCallsReturnNone ==
    [][\A u \in Users :
          (/\ IdleOrComplete(u) /\ ret'.user = u
           /\ ret'.op \in {"request_answer", "submit_answer", "give_up",
                           "give_hint", "give_solution_euler"})
          => /\ ret'.kind = "none" /\ ret'.llm = "no_call"
             /\ RoundUntouched(u)]_vars

\* C26 witness: give_up returned None in a completed level round whose two
\* outcomes are still there.
C26_Witness ==
    /\ ret.op = "give_up" /\ ret.kind = "none"
    /\ sessions[ret.user].mode = "level"
    /\ cursor(ret.user) = 2 /\ Len(queue(ret.user)) = 2
    /\ Len(sessions[ret.user].results) = 2

\* An answer is awaited from user u for the current task: a submit_answer
\* is accepted for evaluation.
AwaitingCurrent(u) ==
    /\ sessions[u].waiting_for_answer /\ sessions[u].expected_task_id # NoTask
    /\ get_current_task(sessions[u]) # NoTask
    /\ get_current_task(sessions[u]) = sessions[u].expected_task_id

\* C27: every submit_answer accepted for evaluation ends with
\* waiting_for_answer false and expected_task_id unset, also after a wrong
\* level answer that keeps the task current; so a second submit_answer with
\* no request_answer in between returns None and is not evaluated.
C27_AcceptedSubmitClearsAwaiting ==
    [][\A u \in Users :
          (AwaitingCurrent(u) /\ ret'.op = "submit_answer" /\ ret'.user = u)
          => /\ ret'.kind \in {"answer", "raise"}
             /\ ~sessions'[u].waiting_for_answer
             /\ sessions'[u].expected_task_id = NoTask
             /\ ~submit_asks_llm(sessions'[u])
             /\ \A a \in UserAnswers :
                   /\ submit_answer_local(sessions'[u], a).r.kind = "none"
                   /\ submit_answer_local(sessions'[u], a).s = sessions'[u]]_vars

\* C27 witness: a wrong level answer was evaluated, the task is still
\* current and no answer is awaited.
C27_Witness ==
    /\ ret.op = "submit_answer" /\ ret.kind = "answer" /\ ret.mode = "level"
    /\ ~ret.is_correct
    /\ get_current_task(sessions[ret.user]) = ret.task
    /\ ~sessions[ret.user].waiting_for_answer
    /\ sessions[ret.user].expected_task_id = NoTask

\* The session of a round of the given mode and level that has just started
\* with queue q.
FreshRound(mode, level, q) ==
    [NewSession EXCEPT !.mode = mode, !.level = level, !.current_task_ids = q]

\* C28: a start_round with a non-empty sample, from whatever state (mid
\* round, answer awaited, completed round of the other mode), leaves a fresh
\* round: the requested mode, cursor 0, no results, no answer awaited, the
\* requested level in level mode and none in euler mode; it returns the first
\* task of the queue.
C28_StartRoundIsFresh ==
    [][\A u \in Users, n \in NumTasksRange :
          /\ (StartEulerSession(u, n) /\ ret'.kind = "task")
             => /\ sessions'[u] = FreshRound("euler", None, queue(u)')
                /\ queue(u)' # <<>> /\ ret'.task = queue(u)'[1]
          /\ \A l \in LevelSet :
                (StartLevelRound(u, l, n) /\ ret'.kind = "task")
                => /\ sessions'[u] = FreshRound("level", l, queue(u)')
                   /\ queue(u)' # <<>> /\ ret'.task = queue(u)'[1]]_vars

\* C28 witness: an euler round of two tasks has just been started; nothing of
\* a level round is left in the session.
C28_Witness ==
    /\ ret.op = "start_euler_session" /\ ret.kind = "task"
    /\ Len(queue(ret.user)) = 2
    /\ sessions[ret.user] = FreshRound("euler", None, queue(ret.user))

\* The step is a call of user u that used get_short_answer exactly when it
\* is a submit_answer accepted in euler mode, and that call then counts once.
ShortAnswerOncePerAccepted(u) ==
    LET accepted == /\ ret'.op = "submit_answer"
                    /\ AwaitingCurrent(u) /\ sessions[u].mode = "euler"
    IN  /\ (ret'.llm = "get_short_answer") <=> accepted
        /\ accepted => short_answer_calls'[u] = short_answer_calls[u] + 1
        /\ (~accepted /\ ret'.op \in {"submit_answer", "request_answer"})
           => short_answer_calls'[u] = short_answer_calls[u]

\* C29 as claimed: get_short_answer is called exactly once per accepted
\* euler submission and never by a level submission, by request_answer or
\* by a submission rejected as not awaited or stale; and the number of
\* get_short_answer calls in an euler round equals the cursor.
C29_ShortAnswerCallsEqualCursor ==
    [][\A u \in Users :
          ret'.user = u
          => /\ ShortAnswerOncePerAccepted(u)
             /\ sessions'[u].mode = "euler"
                => short_answer_calls'[u] = cursor(u)']_vars

\* C29 as amended: the same calls, and in an euler round the cursor counts
\* the get_short_answer calls that returned: a call that raised moves no
\* cursor, so the number of calls is at least the cursor.
C29_ShortAnswerCallsAtLeastCursor ==
    [][\A u \in Users :
          ret'.user = u
          => /\ ShortAnswerOncePerAccepted(u)
             /\ ret'.llm = "get_short_answer"
                => /\ ret'.kind = "answer" => cursor(u)' = cursor(u) + 1
                   /\ ret'.kind = "raise" => cursor(u)' = cursor(u)
             /\ sessions'[u].mode = "euler"
                => short_answer_calls'[u] >= cursor(u)']_vars

\* C29 witness: in an euler round one get_short_answer call raised and one
\* returned: two calls, cursor 1.
C29_Witness ==
    /\ ret.op = "submit_answer" /\ ret.llm = "get_short_answer"
    /\ sessions[ret.user].mode = "euler"
    /\ short_answer_calls[ret.user] = 2
    /\ cursor(ret.user) = 1

\* C30: give_up is a level-mode call only: in euler mode or with no round
\* it returns None, calls no LLM method and leaves the session (cursor,
\* results and awaiting flags included) as it was.
C30_GiveUpLevelOnly ==
    [][\A u \in Users :
          (sessions[u].mode # "level" /\ ret'.op = "give_up" /\ ret'.user = u)
          => /\ ret'.kind = "none" /\ ret'.llm = "no_call"
             /\ sessions'[u] = sessions[u]]_vars

\* C30 witness: give_up returned None in an euler round with a current task
\* whose answer is awaited, and it is still awaited.
C30_Witness ==
    /\ ret.op = "give_up" /\ ret.kind = "none"
    /\ sessions[ret.user].mode = "euler"
    /\ AwaitingCurrent(ret.user)

-----------------------------------------------------------------------------
(* C31..C37 *)

\* The step starts a round for user u or resets the session.
StartsOrResets(u) ==
    /\ ret'.user = u
    /\ ret'.op \in {"reset_session", "start_euler_session", "start_level_round"}

\* The results of user u before the step are a prefix of those after it.
ResultsKept(u) ==
    /\ Len(sessions'[u].results) >= Len(sessions[u].results)
    /\ SubSeq(sessions'[u].results, 1, Len(sessions[u].results)) = sessions[u].results

\* C35: in every state of a level round len(results) = cursor and the i-th
\* outcome is that of the i-th task of the queue; outcomes once appended are
\* not changed, reordered or removed before the next round start or reset.
C35_ResultsFollowQueue ==
    [][\A u \in Users :
          /\ sessions'[u].mode = "level"
             => /\ Len(sessions'[u].results) = cursor(u)'
                /\ cursor(u)' <= Len(queue(u)')
                /\ \A i \in 1..cursor(u)' :
                      sessions'[u].results[i].task_id = queue(u)'[i]
          /\ (sessions[u].mode = "level" /\ ~StartsOrResets(u)) => ResultsKept(u)]_vars

\* C35 witness: a two-task level round with both outcomes recorded, in the
\* order of the queue, the first by give_up and the second by a correct answer.
C35_Witness ==
    /\ ret.op = "submit_answer" /\ ret.kind = "answer" /\ ret.is_correct
    /\ sessions[ret.user].mode = "level"
    /\ cursor(ret.user) = 2 /\ Len(sessions[ret.user].results) = 2
    /\ sessions[ret.user].results[1].gave_up
    /\ sessions[ret.user].results[2].task_id = queue(ret.user)[2]

\* User u is asked for the answer to the current task of a level round, and
\* that task has no stored answer.
AwaitingKeylessTask(u) ==
    /\ AwaitingCurrent(u) /\ sessions[u].mode = "level"
    /\ ~LevelTask(get_current_task(sessions[u])).has_answer

\* C37: for a level task without a stored answer the reference answer is
\* the empty string: a submission is judged correct (outcome recorded,
\* cursor advanced) exactly when its normalized text is empty, and every
\* other submission is judged wrong and changes neither.
C37_KeylessTaskAcceptsBlank ==
    [][\A u \in Users :
          (AwaitingKeylessTask(u) /\ ret'.op = "submit_answer" /\ ret'.user = u)
          => /\ ret'.kind = "answer" /\ ret'.correct_answer = <<>>
             /\ ret'.is_correct <=> (normalize_answer(ret'.user_answer) = <<>>)
             /\ IF ret'.is_correct
                THEN /\ cursor(u)' = cursor(u) + 1
                     /\ sessions'[u].results
                        = Append(sessions[u].results,
                                 UserTaskResult(ret'.task, ret'.user_answer, <<>>, TRUE, FALSE))
                ELSE RoundUntouched(u)]_vars

\* C37 witness: a whitespace-only answer to the task without a stored answer
\* was judged correct and recorded.
C37_Witness ==
    /\ ret.op = "submit_answer" /\ ret.kind = "answer" /\ ret.is_correct
    /\ ret.user_answer = <<TAB, SP>>
    /\ ~LevelTask(ret.task).has_answer
    /\ sessions[ret.user].results[Len(sessions[ret.user].results)].task_id = ret.task

\* The step is user u pressing the button data.
Pressed(u, data) == bot'.user = u /\ bot'.data = data

\* The place of a level in LEVELS.
HasNextLevel(level) == level \in LevelSet /\ level_index(level) < Len(LEVELS)

\* C31: after a level round is complete, a level_retry callback goes to
\* handle_level_after_round and starts a fresh round on the same level, and
\* a level_next callback goes to handle_level_after_round and starts a round
\* on the level that follows the current one in LEVELS.
C31_PostRoundCallbacksStartRound ==
    [][\A u \in Users :
          (LevelRoundComplete(u) /\ queue(u) # <<>>)
          => /\ Pressed(u, PlainButton("level_", "retry"))
                => /\ bot'.handler = "handle_level_after_round"
                   /\ queue(u)' # <<>>
                   /\ sessions'[u] = FreshRound("level", sessions[u].level, queue(u)')
             /\ (Pressed(u, PlainButton("level_", "next")) /\ HasNextLevel(sessions[u].level))
                => /\ bot'.handler = "handle_level_after_round"
                   /\ sessions'[u].mode = "level"
                   /\ sessions'[u].level = LEVELS[level_index(sessions[u].level) + 1]
                   /\ sessions'[u].current_index = 0
                   /\ sessions'[u].results = <<>>]_vars

\* C32: whenever a handler presents a task, the position it prints is the
\* cursor of the user's session + 1 and the total it prints is the length of
\* the queue: for the first task of a round and for every task presented
\* after a submission or a give_up.
C32_ShownPositionIsCursor ==
    bot.shown_task # NoTask
    => /\ bot.shown_task = get_current_task(sessions[bot.user])
       /\ bot.shown_position = cursor(bot.user) + 1
       /\ bot.shown_total = Len(queue(bot.user))

\* The per-task actions: a request for an answer, and a give_up.
PerTaskNames == {"answer", "solution"}

\* The mode whose keyboards carry the button.
ButtonMode(data) == IF data.prefix = "euler_" THEN "euler" ELSE "level"

\* The button belongs to the current task of the session of user u.
ButtonOfCurrentTask(u, data) ==
    /\ data.task_id = get_current_task(sessions[u])
    /\ ButtonMode(data) = sessions[u].mode

\* C33: a per-task action (answer request, give_up) coming from the button
\* of task T is applied only when T is the current task of the session and
\* the mode of the button is the mode of the session: pressed for a task
\* that is not current, or for the other mode, it neither sets the awaiting
\* flags nor records an outcome nor moves the cursor.
C33_StaleButtonDoesNothing ==
    [][\A u \in Users, data \in Buttons :
          (/\ Pressed(u, data) /\ data.has_id /\ data.name \in PerTaskNames
           /\ ~ButtonOfCurrentTask(u, data))
          => /\ sessions'[u].waiting_for_answer = sessions[u].waiting_for_answer
             /\ sessions'[u].expected_task_id = sessions[u].expected_task_id
             /\ RoundUntouched(u)]_vars

\* The summary the handler sent is the summary of the session of user u.
SentSummaryOf(u) ==
    /\ bot'.summary_sent
    /\ bot'.summary_level = sessions'[u].level
    /\ bot'.summary_total = Len(sessions'[u].results)
    /\ bot'.summary_correct = count_correct(sessions'[u].results)

\* C34: when a step completes a level round, by a correct answer or by a
\* give_up, the handler sends the summary of the session of the user who
\* acted, whatever chat the answer or the button press came from.
C34_SummaryOfTheActingUser ==
    [][\A u \in Users :
          (Advanced(u) /\ LevelRoundComplete(u)') => SentSummaryOf(u)]_vars

-----------------------------------------------------------------------------
(* C36: a round played to its end *)

\* The session of user u has a current task.
RoundActive(u) == get_current_task(sessions[u]) # NoTask

\* cursor >= len(queue) in a started round
RoundComplete(u) == sessions[u].mode # None /\ cursor(u) >= Len(queue(u))

\* The advancing actions on the current task: in euler mode a submission
\* of the awaited task, in level mode a submission of the awaited task that
\* matches the key, or a give_up.
AdvancingAction(u) ==
    \/ /\ AwaitingCurrent(u) /\ sessions[u].mode = "euler"
       /\ \E a \in UserAnswers : SubmitAnswer(u, a)
    \/ /\ AwaitingCurrent(u) /\ sessions[u].mode = "level"
       /\ \E a \in UserAnswers :
             MatchesKey(a, get_current_task(sessions[u])) /\ SubmitAnswer(u, a)
    \/ /\ RoundActive(u) /\ sessions[u].mode = "level"
       /\ GiveUp(u)

\* One user plays rounds to their end: a round is started when none is in
\* progress, and the tasks are answered or given up.
NextRound ==
    \E u \in Users :
        \/ IdleOrComplete(u) /\ \E n \in 0..MaxNumTasks : StartEulerSession(u, n)
        \/ IdleOrComplete(u) /\ \E l \in LevelSet : StartLevelRound(u, l, MaxNumTasks)
        \/ RequestAnswer(u)
        \/ \E a \in UserAnswers : SubmitAnswer(u, a)
        \/ GiveUp(u)

\* The user keeps acting: while a task is current the answer request is
\* made, and the current task receives an advancing action again and
\* again. Nothing is assumed of the LLM.
SpecRound ==
    /\ Init /\ [][NextRound]_vars
    /\ \A u \in Users : WF_vars(RoundActive(u) /\ RequestAnswer(u))
    /\ \A u \in Users : SF_vars(AdvancingAction(u))

\* The cursor counts the advancing transitions of the round: it is 0 after
\* a start, grows by one with each advancing transition and by nothing
\* else, and never passes the length of the queue; so a complete round has
\* had exactly len(queue) of them.
CursorCountsAdvances(u) ==
    \/ cursor(u)' = cursor(u)
    \/ ret'.op \in {"start_euler_session", "start_level_round"} /\ cursor(u)' = 0
    \/ Advanced(u)

\* A wrong answer in a level round does not advance.
WrongLevelAnswerStays(u) ==
    (/\ ret'.op = "submit_answer" /\ ret'.user = u /\ sessions[u].mode = "level"
     /\ ~(ret'.kind = "answer" /\ ret'.is_correct))
    => RoundUntouched(u)

\* A call to the LLM has just failed.
LLMFailed == ret.kind = "raise"

\* C36 as stated: every round reaches RoundComplete when the user keeps
\* acting and each current task receives an advancing action; the number of
\* advancing transitions of a round is len(queue); wrong answers in a level
\* round never advance.
C36_RoundCompletes ==
    /\ \A u \in Users : RoundActive(u) ~> RoundComplete(u)
    /\ [](\A u \in Users : cursor(u) <= Len(queue(u)))
    /\ [][\A u \in Users : CursorCountsAdvances(u) /\ WrongLevelAnswerStays(u)]_vars

\* C36 amended: the round reaches RoundComplete unless calls to the LLM
\* keep failing (an advancing action whose LLM call raises does not
\* advance); the count of advancing transitions and the wrong level answers
\* are as stated.
C36_RoundCompletesUnlessLLMFails ==
    /\ \A u \in Users : RoundActive(u) ~> (RoundComplete(u) \/ LLMFailed)
    /\ [](\A u \in Users : cursor(u) <= Len(queue(u)))
    /\ [][\A u \in Users : CursorCountsAdvances(u) /\ WrongLevelAnswerStays(u)]_vars

\* C36 witness: a level round of two tasks is complete after a wrong answer
\* that was retried and two advancing transitions.
C36_Witness ==
    /\ ret.op \in {"submit_answer", "give_up"} /\ ret.kind = "answer" /\ ret.finished_round
    /\ sessions[ret.user].mode = "level"
    /\ Len(queue(ret.user)) = 2 /\ cursor(ret.user) = 2
    /\ Len(sessions[ret.user].results) = 2

====
